---- MODULE Spec2Model ----
(***************************************************************************)
(* Model of the sbpf-zkvm trace-to-constraint pipeline:                    *)
(*   bpf-tracer   trace_program           (src/bpf-tracer/src/vm.rs)       *)
(*   zk-circuits  CounterCircuit, chips   (src/zk-circuits/src)            *)
(*   prover       prove/verify, Witness   (src/prover/src)                 *)
(*                                                                         *)
(* Machine words are u64 in the program.  The model keeps the structure of *)
(* the arithmetic but scales the widths: a register is WordBits wide and   *)
(* the scalar field has FieldModulus elements, with FieldModulus far above *)
(* 2 * 2^WordBits exactly as the BN254 scalar field is far above 2^65, so  *)
(* that a sum of two embedded words never wraps in the field while it may  *)
(* wrap in the machine.                                                    *)
(***************************************************************************)
EXTENDS Integers, Sequences, FiniteSets, TLC

\* ------------------------------------------------------------------ bounds

\* Width of a machine word in the model (u64 in the program).
WordBits == 6

\* Instruction budget handed to TracerContext::new (100_000 in the program).
InstructionBudget == 6

\* How many hand edits a caller makes to a trace between capture and proving.
MaxEdits == 2

\* Calls of load_or_generate each caller makes.
MaxCalls == 2

Word == 2 ^ WordBits

\* Size of the scalar field F.  Only addition and equality of field elements
\* are used by the circuits, so primality plays no part.
FieldModulus == 2 ^ (3 * WordBits) - 3

\* --------------------------------------------------------- program constants

\* General purpose registers r0..r10 seen by the circuit.
NumRegs == 11

\* Slots of a RegisterState: r0..r10 and the program counter.
NumSlots == 12

\* Index of the program counter in a RegisterState.
PcSlot == 11

\* ebpf::INSN_SIZE
INSN_SIZE == 8

\* Opcode bytes.
MOV64_IMM == 183
ADD64_IMM == 7
ADD64_REG == 15
JA == 5
EXIT == 149

GprIdx == 0 .. (NumRegs - 1)
SlotIdx == 0 .. (NumSlots - 1)

\* ------------------------------------------------------------ conversions

\* `x as u64` of a signed value: the bit-identical unsigned word.
AsU64(x) == x % Word

\* u64 wrapping addition.
WrappingAdd(a, b) == (a + b) % Word

\* F::from(u64): the embedding of a machine word into the field.
F_from(x) == x % FieldModulus

\* Field addition.
F_add(a, b) == (a + b) % FieldModulus

\* ------------------------------------------------------------- trace.rs

\* RegisterState::new
RegisterState_new == [i \in SlotIdx |-> 0]

\* RegisterState::from_regs
RegisterState_from_regs(regs) == [i \in SlotIdx |-> regs[i]]

\* ExecutionTrace::new
ExecutionTrace_new ==
    [instructions |-> << >>,
     account_states |-> << >>,
     initial_registers |-> RegisterState_new,
     final_registers |-> RegisterState_new]

\* ExecutionTrace::instruction_count
instruction_count(trace) == Len(trace.instructions)

\* ----------------------------------------------------- instruction encoding

\* The signed value of a little-endian two's complement byte string of 2 or
\* 4 bytes, computed without leaving the range of the value.
SignedLE2(b0, b1) ==
    IF b1 >= 128 THEN -((255 - b0) + 256 * (255 - b1) + 1)
    ELSE b0 + 256 * b1

SignedLE4(b0, b1, b2, b3) ==
    IF b3 >= 128
    THEN -((255 - b0) + 256 * (255 - b1) + 65536 * (255 - b2)
           + 16777216 * (255 - b3) + 1)
    ELSE b0 + 256 * b1 + 65536 * b2 + 16777216 * b3

\* The fixed 8-byte encoding op:1 | dst:4b | src:4b | off:i16 | imm:i32.
Decode(b) ==
    [opc |-> b[1],
     dst |-> b[2] % 16,
     src |-> b[2] \div 16,
     off |-> SignedLE2(b[3], b[4]),
     imm |-> SignedLE4(b[5], b[6], b[7], b[8])]

\* Encoding of an instruction with a small immediate and offset.
Insn(opc, dst, src, off, imm) ==
    << opc, dst + 16 * src,
       IF off < 0 THEN 256 + off ELSE off, IF off < 0 THEN 255 ELSE 0,
       IF imm < 0 THEN 256 + imm ELSE imm, IF imm < 0 THEN 255 ELSE 0,
       IF imm < 0 THEN 255 ELSE 0, IF imm < 0 THEN 255 ELSE 0 >>

\* The 8 bytes at instruction index pc of the text.
InsnAt(text, pc) == SubSeq(text, pc * INSN_SIZE + 1, pc * INSN_SIZE + INSN_SIZE)

\* ------------------------------------------------ the embedded VM (vm.rs)

\* Results (Result<T, E> and ProgramResult) as records of one shape.
Ok(v) == [ok |-> TRUE, value |-> v, err |-> ""]
Err(e) == [ok |-> FALSE, value |-> 0, err |-> e]

\* Opcodes the interpreter executes in this model.
VmOpcodes == {MOV64_IMM, ADD64_IMM, ADD64_REG, JA, EXIT}

\* A loader that accepts every text, the empty one included.
LoadOkAnyText(bytecode) == TRUE

\* Executable::from_text_bytes: an empty text does not load.
LoadOk(bytecode) == Len(bytecode) > 0

\* executable.verify::<RequisiteVerifier>(): whole instructions, known
\* opcodes, register indices in range (r10 is read-only), jumps inside the
\* text.
VerifyOk(bytecode) ==
    /\ Len(bytecode) % INSN_SIZE = 0
    /\ \A pc \in 0 .. (Len(bytecode) \div INSN_SIZE) - 1 :
          LET insn == Decode(InsnAt(bytecode, pc)) IN
          /\ insn.opc \in VmOpcodes
          /\ insn.src < NumRegs
          /\ insn.dst < NumRegs - 1
          /\ insn.opc = JA =>
                /\ pc + 1 + insn.off >= 0
                /\ pc + 1 + insn.off < Len(bytecode) \div INSN_SIZE

\* The registers a program starts from: r1 holds the input region's
\* address, r10 the frame pointer, every other slot is zero (addresses
\* scaled to the model's word).
VmEntryRegisters ==
    [i \in SlotIdx |-> IF i = 1 THEN 4 ELSE IF i = 10 THEN 32 ELSE 0]

\* EbpfVm::new: vm.registers after construction.  Whether the constructor
\* already loads r1, or execute_program does when the run starts, is the
\* library's choice (entrySetup: execute_program does).
VmInitialRegisters(entrySetup) ==
    IF entrySetup THEN [VmEntryRegisters EXCEPT ![1] = 0] ELSE VmEntryRegisters

\* TracerContext::new
TracerContext_new(remaining) == [remaining |-> remaining]

\* TracerContext::get_remaining
get_remaining(context) == context.remaining

\* A meter that subtracts with wrap-around.
consume_wrapping(remaining, amount) == (remaining - amount) % Word

\* TracerContext::consume
consume(remaining, amount) == IF amount >= remaining THEN 0 ELSE remaining - amount

\* One ALU instruction on the general purpose registers (BPF semantics:
\* 64-bit results are taken modulo the word).
ExecAlu(insn, reg) ==
    CASE insn.opc = MOV64_IMM -> [reg EXCEPT ![insn.dst] = AsU64(insn.imm)]
      [] insn.opc = ADD64_IMM ->
            [reg EXCEPT ![insn.dst] = WrappingAdd(reg[insn.dst], AsU64(insn.imm))]
      [] insn.opc = ADD64_REG ->
            [reg EXCEPT ![insn.dst] = WrappingAdd(reg[insn.dst], reg[insn.src])]
      [] OTHER -> reg

\* The interpreter loop of vm.execute_program(&executable, true) with
\* register tracing enabled: before each instruction the register file is
\* pushed to register_trace; the meter stops the run when the budget is
\* used up.
RECURSIVE Interpret(_, _, _, _, _)
Interpret(text, reg, register_trace, due, budget) ==
    IF due >= budget
    THEN [register_trace |-> register_trace, reg |-> reg, due |-> due,
          result |-> Err("ExceededMaxInstructions")]
    ELSE IF reg[PcSlot] * INSN_SIZE >= Len(text)
    THEN [register_trace |-> register_trace, reg |-> reg, due |-> due + 1,
          result |-> Err("ExecutionOverrun")]
    ELSE LET insn == Decode(InsnAt(text, reg[PcSlot]))
             rt == Append(register_trace, reg)
             next_pc == reg[PcSlot] + 1
         IN  IF insn.opc = EXIT
             THEN [register_trace |-> rt, reg |-> reg, due |-> due + 1,
                   result |-> Ok(reg[0])]
             ELSE IF insn.opc = JA
             THEN Interpret(text, [reg EXCEPT ![PcSlot] = next_pc + insn.off],
                            rt, due + 1, budget)
             ELSE Interpret(text, [ExecAlu(insn, reg) EXCEPT ![PcSlot] = next_pc],
                            rt, due + 1, budget)

\* vm.execute_program: the register trace, vm.registers after the run and
\* the program result.  The run starts from the entry registers, which the
\* VM holds in vm.registers by then.  Whether the VM writes the
\* interpreter's registers back into vm.registers is the library's choice
\* (writeBack).
execute_program(text, registers, remaining, writeBack) ==
    LET entry == [registers EXCEPT ![1] = VmEntryRegisters[1]]
        run == Interpret(text, entry, << >>, 0, remaining)
    IN
    [register_trace |-> run.register_trace,
     registers |-> IF writeBack THEN run.reg ELSE entry,
     remaining |-> consume(remaining, run.due),
     instruction_count |-> remaining - consume(remaining, run.due),
     result |-> run.result]

\* ------------------------------------------------------ trace_program (vm.rs)

\* A panic: the call does not return.
Panicked == [ok |-> FALSE, value |-> 0, err |-> "panicked"]

\* usize::MAX, usize being as wide as the machine word.
UsizeMax == Word - 1

\* (pc as usize).saturating_mul(n)
saturating_mul(pc, n) == IF pc * n > UsizeMax THEN UsizeMax ELSE pc * n

\* The instruction bytes recorded for a snapshot with program counter pc.
\* insn_offset + INSN_SIZE is a usize addition: past usize::MAX it panics
\* in a build with overflow checks and wraps in a build without them, and
\* a slice whose start lies after its end panics.
InstructionBytes(program_bytes, pc, overflow_checks) ==
    LET insn_offset == saturating_mul(pc, INSN_SIZE)
        end == (insn_offset + INSN_SIZE) % (UsizeMax + 1)
    IN  IF overflow_checks /\ insn_offset + INSN_SIZE > UsizeMax THEN Panicked
        ELSE IF end <= Len(program_bytes)
        THEN IF insn_offset > end THEN Panicked
             ELSE Ok(SubSeq(program_bytes, insn_offset + 1, end))
        ELSE Ok([j \in 1 .. INSN_SIZE |-> 0])

\* An after-state read at the entry's own index.
RegistersAfterSameIndex(register_trace, idx, final_registers) ==
    IF idx + 1 < Len(register_trace)
    THEN RegisterState_from_regs(register_trace[idx + 1])
    ELSE final_registers

\* An after-state that, for the last entry, repeats the entry's own
\* snapshot instead of taking the final registers.
RegistersAfterLastSnapshot(register_trace, idx, final_registers) ==
    IF idx + 1 < Len(register_trace)
    THEN RegisterState_from_regs(register_trace[idx + 2])
    ELSE RegisterState_from_regs(register_trace[idx + 1])

\* An after-state that is the final registers for every entry.
RegistersAfterFinal(register_trace, idx, final_registers) == final_registers

\* The after-state of entry idx (0-based): the next snapshot, or the final
\* registers for the last one.
RegistersAfter(register_trace, idx, final_registers) ==
    IF idx + 1 < Len(register_trace)
    THEN RegisterState_from_regs(register_trace[idx + 2])
    ELSE final_registers

\* A match that returns the trace whatever the program's result.
ProgramOutcomeAlwaysOk(result, trace) == Ok(trace)

\* match result { Ok(_) => Ok(trace), Err(err) => Err(anyhow!(..)) }
ProgramOutcome(result, trace) ==
    IF result.ok THEN Ok(trace)
    ELSE IF result.err = "ExceededMaxInstructions"
    THEN Err("Program execution failed: ExceededMaxInstructions")
    ELSE Err("Program execution failed: ExecutionOverrun")

\* trace_program(bytecode).  A loaded text holds at least one whole
\* instruction, and on such a text a build with overflow checks and one
\* without give the same instruction bytes, so the bytes are taken from
\* the former.
trace_program(bytecode, writeBack, entrySetup) ==
    IF ~LoadOk(bytecode) THEN Err("Failed to load BPF program")
    ELSE IF ~VerifyOk(bytecode) THEN Err("Failed to verify executable")
    ELSE
    LET vm_registers == VmInitialRegisters(entrySetup)
        initial_registers == RegisterState_from_regs(vm_registers)
        run == execute_program(bytecode, vm_registers, InstructionBudget, writeBack)
        captured == RegisterState_from_regs(run.registers)
        final_registers ==
            IF run.result.ok THEN [captured EXCEPT ![0] = run.result.value]
            ELSE captured
        instructions ==
            [k \in 1 .. Len(run.register_trace) |->
                [pc |-> run.register_trace[k][PcSlot],
                 instruction_bytes |->
                     InstructionBytes(bytecode, run.register_trace[k][PcSlot], TRUE).value,
                 registers_before |-> RegisterState_from_regs(run.register_trace[k]),
                 registers_after |->
                     RegistersAfter(run.register_trace, k - 1, final_registers)]]
        trace == [instructions |-> instructions,
                  account_states |-> << >>,
                  initial_registers |-> initial_registers,
                  final_registers |-> final_registers]
    IN  IF \E k \in 1 .. Len(run.register_trace) :
               ~InstructionBytes(bytecode, run.register_trace[k][PcSlot], TRUE).ok
        THEN Panicked
        ELSE ProgramOutcome(run.result, trace)

\* ------------------------------------------------------------- bytecode inputs

\* S1: mov64 r0, 42; exit
ProgS1 == Insn(MOV64_IMM, 0, 0, 0, 42) \o Insn(EXIT, 0, 0, 0, 0)

\* S2: mov64 r0, 10; mov64 r1, 20; add64 r0, r1; exit
ProgS2 ==
    Insn(MOV64_IMM, 0, 0, 0, 10) \o Insn(MOV64_IMM, 1, 0, 0, 20)
    \o Insn(ADD64_REG, 0, 1, 0, 0) \o Insn(EXIT, 0, 0, 0, 0)

\* mov64 r0, 10; add64 r0, -5; exit
ProgAddNeg ==
    Insn(MOV64_IMM, 0, 0, 0, 10) \o Insn(ADD64_IMM, 0, 0, 0, -5)
    \o Insn(EXIT, 0, 0, 0, 0)

\* mov64 r0, Word - 1; add64 r0, r0; exit: the sum exceeds the word
ProgDouble ==
    Insn(MOV64_IMM, 0, 0, 0, Word - 1) \o Insn(ADD64_REG, 0, 0, 0, 0)
    \o Insn(EXIT, 0, 0, 0, 0)

\* exit
ProgExit == Insn(EXIT, 0, 0, 0, 0)

\* ja -1: an unconditional jump to itself
ProgLoop == Insn(JA, 0, 0, -1, 0)

\* One instruction more than the budget: InstructionBudget moves, then exit.
ProgOver ==
    [j \in 1 .. InstructionBudget * INSN_SIZE |->
        Insn(MOV64_IMM, 0, 0, 0, 1)[((j - 1) % INSN_SIZE) + 1]]
    \o Insn(EXIT, 0, 0, 0, 0)

\* An opcode byte the verifier does not know.
ProgBadOpcode == Insn(255, 0, 0, 0, 0) \o Insn(EXIT, 0, 0, 0, 0)

\* Half an instruction.
ProgRagged == << EXIT, 0, 0, 0 >>

Programs ==
    {ProgS1, ProgS2, ProgAddNeg, ProgDouble, ProgExit, ProgLoop, ProgOver,
     ProgBadOpcode, ProgRagged, << >>}

\* --------------------------------------- the circuit builder (halo2-base)

\* A Context: the assigned cells (field elements, cell c is cells[c]), the
\* copy constraints between cells, and the addition gates.
EmptyContext == [cells |-> << >>, equalities |-> << >>, gates |-> << >>]

\* QuantumCell::Existing and QuantumCell::Constant
Existing(c) == [kind |-> "Existing", cell |-> c, value |-> 0]
Constant(v) == [kind |-> "Constant", cell |-> 0, value |-> v]

\* The value a gate operand carries.
OperandValue(ctx, q) == IF q.kind = "Existing" THEN ctx.cells[q.cell] ELSE q.value

\* ctx.load_witness(v): the new cell is the last one.
load_witness(ctx, v) == [ctx EXCEPT !.cells = Append(@, v)]

\* The cell assigned last.
LastCell(ctx) == Len(ctx.cells)

\* ctx.constrain_equal(a, b)
constrain_equal(ctx, a, b) == [ctx EXCEPT !.equalities = Append(@, << a, b >>)]

\* gate.add(ctx, a, b): a new cell holding a + b, tied to a and b by a gate.
gate_add(ctx, a, b) ==
    [ctx EXCEPT
        !.cells = Append(@, F_add(OperandValue(ctx, a), OperandValue(ctx, b))),
        !.gates = Append(@, [a |-> a, b |-> b, out |-> Len(ctx.cells) + 1])]

\* Whether the assignment satisfies every constraint of the context.
Satisfied(ctx) ==
    /\ \A k \in 1 .. Len(ctx.equalities) :
          ctx.cells[ctx.equalities[k][1]] = ctx.cells[ctx.equalities[k][2]]
    /\ \A k \in 1 .. Len(ctx.gates) :
          ctx.cells[ctx.gates[k].out] =
              F_add(OperandValue(ctx, ctx.gates[k].a), OperandValue(ctx, ctx.gates[k].b))

\* The constraints of a context as pairs of constrained values.
ConstrainedPairs(ctx) ==
    {<< ctx.cells[ctx.equalities[k][1]], ctx.cells[ctx.equalities[k][2]] >> :
        k \in 1 .. Len(ctx.equalities)}

\* --------------------------------------------- CounterCircuit (counter.rs)

\* load_register_state: eleven witness cells holding F::from(regs.regs[i]).
load_register_state(ctx, regs) ==
    [ctx |-> [ctx EXCEPT !.cells = @ \o [j \in 1 .. NumRegs |-> F_from(regs[j - 1])]],
     regs |-> [i \in GprIdx |-> Len(ctx.cells) + i + 1]]

\* The placeholder loop of a step: gate.add on each register pair in turn,
\* the sum discarded (eleven new cells, eleven gates).
TransitionPlaceholder(ctx, current_regs, next_regs) ==
    [ctx EXCEPT
        !.cells = @ \o [j \in 1 .. NumRegs |->
                          F_add(ctx.cells[current_regs[j - 1]],
                                ctx.cells[next_regs[j - 1]])],
        !.gates = @ \o [j \in 1 .. NumRegs |->
                          [a |-> Existing(current_regs[j - 1]),
                           b |-> Existing(next_regs[j - 1]),
                           out |-> Len(ctx.cells) + j]]]

\* The loop over the trace's instructions, from entry k on.
RECURSIVE StepLoop(_, _, _, _)
StepLoop(ctx, current_regs, instructions, k) ==
    IF k > Len(instructions) THEN [ctx |-> ctx, regs |-> current_regs]
    ELSE LET next == load_register_state(ctx, instructions[k].registers_after)
         IN  StepLoop(TransitionPlaceholder(next.ctx, current_regs, next.regs),
                      next.regs, instructions, k + 1)

\* The boundary loop: constrain_equal(current_regs[i], final_regs[i]) for
\* i in 0..n.
ConstrainFinalFrom(ctx, current_regs, final_regs, n) ==
    [ctx EXCEPT
        !.equalities = @ \o [j \in 1 .. n |-> << current_regs[j - 1], final_regs[j - 1] >>]]

\* A boundary loop that stops one register short.
ConstrainFinalShort(ctx, current_regs, final_regs) ==
    ConstrainFinalFrom(ctx, current_regs, final_regs, NumRegs - 1)

\* No boundary loop at all.
ConstrainFinalNone(ctx, current_regs, final_regs) == ctx

ConstrainFinal(ctx, current_regs, final_regs) ==
    ConstrainFinalFrom(ctx, current_regs, final_regs, NumRegs)

\* CounterCircuit::from_trace(trace).synthesize_with_context(ctx, gate)
synthesize_with_context(trace) ==
    LET initial == load_register_state(EmptyContext, trace.initial_registers)
        steps == StepLoop(initial.ctx, initial.regs, trace.instructions, 1)
        final == load_register_state(steps.ctx, trace.final_registers)
    IN  [result |-> "Ok",
         ctx |-> ConstrainFinal(final.ctx, steps.regs, final.regs)]

\* CounterCircuit::num_constraints
num_constraints(trace) == instruction_count(trace) * 50

\* ------------------------------------------------------ prover (witness.rs)

\* A projection that keeps all twelve slots, the program counter included.
register_state_with_pc(regs) == [j \in 1 .. NumSlots |-> regs[j - 1]]

\* register_state_to_field_elements: r0..r10 as a Vec<u64>.
register_state_to_field_elements(regs) == [j \in 1 .. NumRegs |-> regs[j - 1]]

\* account_state_to_witness_format
account_state_to_witness_format(change) ==
    [pubkey |-> change.pubkey,
     data_before |-> change.before.data,
     data_after |-> change.after.data,
     lamports_before |-> change.before.lamports,
     lamports_after |-> change.after.lamports]

\* A witness whose per-step vectors are the states before the steps and
\* whose program counters come from the before-states' PC slot.
Witness_from_trace_before(trace) ==
    Ok([initial_registers |-> register_state_to_field_elements(trace.initial_registers),
        instruction_register_states |->
            [k \in 1 .. Len(trace.instructions) |->
                register_state_to_field_elements(trace.instructions[k].registers_before)],
        final_registers |-> register_state_to_field_elements(trace.final_registers),
        program_counters |->
            [k \in 1 .. Len(trace.instructions) |->
                trace.instructions[k].registers_before[PcSlot]],
        instruction_bytes |->
            [k \in 1 .. Len(trace.instructions) |-> trace.instructions[k].instruction_bytes],
        account_changes |-> << >>])

\* Witness::from_trace
Witness_from_trace(trace) ==
    Ok([initial_registers |-> register_state_to_field_elements(trace.initial_registers),
        instruction_register_states |->
            [k \in 1 .. Len(trace.instructions) |->
                register_state_to_field_elements(trace.instructions[k].registers_after)],
        final_registers |-> register_state_to_field_elements(trace.final_registers),
        program_counters |->
            [k \in 1 .. Len(trace.instructions) |-> trace.instructions[k].pc],
        instruction_bytes |->
            [k \in 1 .. Len(trace.instructions) |-> trace.instructions[k].instruction_bytes],
        account_changes |->
            [k \in 1 .. Len(trace.account_states) |->
                account_state_to_witness_format(trace.account_states[k])]])

\* ---------------------------------------------------- serde_json (witness.rs)

\* The serialized text is a sequence of tokens: punctuation, decimal digits
\* and quoted field names (a field name is one token).
DigitChars == << "0", "1", "2", "3", "4", "5", "6", "7", "8", "9" >>

IsDigit(c) == \E d \in 1 .. Len(DigitChars) : DigitChars[d] = c

\* An integer in decimal, most significant digit first.
RECURSIVE Digits(_)
Digits(n) ==
    IF n < Len(DigitChars) THEN << DigitChars[n + 1] >>
    ELSE Digits(n \div Len(DigitChars)) \o << DigitChars[(n % Len(DigitChars)) + 1] >>

\* The number a run of digits denotes.
RECURSIVE DigitsValue(_)
DigitsValue(ds) ==
    IF ds = << >> THEN 0
    ELSE DigitsValue(SubSeq(ds, 1, Len(ds) - 1)) * Len(DigitChars)
         + (CHOOSE d \in 1 .. Len(DigitChars) : DigitChars[d] = ds[Len(ds)]) - 1

\* How many digits a text starts with.
DigitPrefix(s) ==
    CHOOSE n \in 0 .. Len(s) :
        /\ \A j \in 1 .. n : IsDigit(s[j])
        /\ n < Len(s) => ~IsDigit(s[n + 1])

\* The types that derive Serialize and Deserialize.
U64 == [t |-> "int", limit |-> Word]
\* A byte type read as if it were signed.
I8 == [t |-> "int", limit |-> 128]

U8 == [t |-> "int", limit |-> 256]
Vec(of) == [t |-> "vec", of |-> of]
Struct(fields) == [t |-> "struct", fields |-> fields]

\* struct AccountChange
AccountChangeType ==
    Struct(<< << "pubkey", Vec(U8) >>,
              << "data_before", Vec(U8) >>,
              << "data_after", Vec(U8) >>,
              << "lamports_before", U64 >>,
              << "lamports_after", U64 >> >>)

\* struct Witness
WitnessType ==
    Struct(<< << "initial_registers", Vec(U64) >>,
              << "instruction_register_states", Vec(Vec(U64)) >>,
              << "final_registers", Vec(U64) >>,
              << "program_counters", Vec(U64) >>,
              << "instruction_bytes", Vec(Vec(U8)) >>,
              << "account_changes", Vec(AccountChangeType) >> >>)

RECURSIVE to_vec(_, _)
RECURSIVE WriteItems(_, _)
RECURSIVE WriteFields(_, _)

\* The elements of a sequence, separated by commas.
WriteItems(type, xs) ==
    IF xs = << >> THEN << >>
    ELSE to_vec(type, Head(xs))
         \o (IF Tail(xs) = << >> THEN << >> ELSE << "," >> \o WriteItems(type, Tail(xs)))

\* The fields of a struct in declaration order: name, colon, value.
WriteFields(fields, v) ==
    IF fields = << >> THEN << >>
    ELSE << Head(fields)[1], ":" >> \o to_vec(Head(fields)[2], v[Head(fields)[1]])
         \o (IF Tail(fields) = << >> THEN << >> ELSE << "," >> \o WriteFields(Tail(fields), v))

\* serde_json::to_vec for a value of the given type.
to_vec(type, v) ==
    CASE type.t = "int" -> Digits(v)
      [] type.t = "vec" -> << "[" >> \o WriteItems(type.of, v) \o << "]" >>
      [] type.t = "struct" -> << "{" >> \o WriteFields(type.fields, v) \o << "}" >>

\* What a parsing step returns: the value and the text left, or a failure.
Parsed(v, rest) == [ok |-> TRUE, value |-> v, rest |-> rest]
ParseError == [ok |-> FALSE, value |-> 0, rest |-> << >>]

\* The record acc with the field name set to v.
WithField(acc, name, v) ==
    [n \in (DOMAIN acc) \cup {name} |-> IF n = name THEN v ELSE acc[n]]

RECURSIVE ParseValue(_, _)
RECURSIVE ParseItems(_, _, _)
RECURSIVE ParseFields(_, _, _)

\* The elements of a sequence up to the closing bracket.
ParseItems(type, s, acc) ==
    LET r == ParseValue(type, s) IN
    IF ~r.ok \/ r.rest = << >> THEN ParseError
    ELSE IF r.rest[1] = "," THEN ParseItems(type, Tail(r.rest), Append(acc, r.value))
    ELSE IF r.rest[1] = "]" THEN Parsed(Append(acc, r.value), Tail(r.rest))
    ELSE ParseError

\* The fields of a struct up to the closing brace, read in the order the
\* writer emits them.
ParseFields(fields, s, acc) ==
    IF Len(s) < 2 \/ s[1] # Head(fields)[1] \/ s[2] # ":" THEN ParseError
    ELSE
    LET r == ParseValue(Head(fields)[2], SubSeq(s, 3, Len(s))) IN
    IF ~r.ok \/ r.rest = << >> THEN ParseError
    ELSE IF Tail(fields) = << >>
    THEN IF r.rest[1] = "}"
         THEN Parsed(WithField(acc, Head(fields)[1], r.value), Tail(r.rest))
         ELSE ParseError
    ELSE IF r.rest[1] = ","
    THEN ParseFields(Tail(fields), Tail(r.rest), WithField(acc, Head(fields)[1], r.value))
    ELSE ParseError

\* One value of the given type at the head of the text.  A number is its
\* longest run of digits, without a leading zero, and must fit the type.
ParseValue(type, s) ==
    CASE type.t = "int" ->
            LET n == DigitPrefix(s) IN
            IF n = 0 \/ (n > 1 /\ s[1] = DigitChars[1]) THEN ParseError
            ELSE IF DigitsValue(SubSeq(s, 1, n)) >= type.limit THEN ParseError
            ELSE Parsed(DigitsValue(SubSeq(s, 1, n)), SubSeq(s, n + 1, Len(s)))
      [] type.t = "vec" ->
            IF Len(s) < 2 \/ s[1] # "[" THEN ParseError
            ELSE IF s[2] = "]" THEN Parsed(<< >>, SubSeq(s, 3, Len(s)))
            ELSE ParseItems(type.of, Tail(s), << >>)
      [] type.t = "struct" ->
            IF Len(s) < 2 \/ s[1] # "{" THEN ParseError
            ELSE ParseFields(type.fields, Tail(s), << >>)

\* serde_json::from_slice: one value, then the end of the text.
from_slice(type, bytes) ==
    LET r == ParseValue(type, bytes) IN
    IF r.ok /\ r.rest = << >> THEN Ok(r.value) ELSE Err("trailing characters")

\* Witness::to_bytes
Witness_to_bytes(w) == Ok(to_vec(WitnessType, w))

\* Witness::from_bytes
Witness_from_bytes(bytes) == from_slice(WitnessType, bytes)

\* ---------------------------------------------------------- prover (lib.rs)

\* PublicInputs::from_trace: the (initial, final) register boundary, r0..r10.
PublicInputs_from_trace(trace) ==
    Ok([initial_registers |-> [i \in GprIdx |-> trace.initial_registers[i]],
        final_registers |-> [i \in GprIdx |-> trace.final_registers[i]]])

\* generate_witness
generate_witness(trace) ==
    LET witness == Witness_from_trace(trace) IN
    IF ~witness.ok THEN witness ELSE Witness_to_bytes(witness.value)

\* create_proof
create_proof(witness) == Ok(<< 222, 173, 190, 239 >>)

\* verify_proof
verify_proof(proof, public_inputs) == Ok(TRUE)

\* prove_execution
prove_execution(trace) ==
    LET public_inputs == PublicInputs_from_trace(trace) IN
    IF ~public_inputs.ok THEN public_inputs ELSE
    LET witness == generate_witness(trace) IN
    IF ~witness.ok THEN witness ELSE
    LET proof == create_proof(witness.value) IN
    IF ~proof.ok THEN proof
    ELSE Ok([proof |-> proof.value, public_inputs |-> public_inputs.value])

\* verify_execution
verify_execution(proof, public_inputs) == verify_proof(proof, public_inputs)

\* ------------------------------------------------------- chips (chips/*.rs)

\* A chip value: its kind and operand fields (fields a kind lacks are 0).
ChipValue(kind, dst_reg, src_reg, imm, offset, loaded_value) ==
    [kind |-> kind, dst_reg |-> dst_reg, src_reg |-> src_reg, imm |-> imm,
     offset |-> offset, loaded_value |-> loaded_value]

\* The constructors: assert!(dst_reg < 11), assert!(src_reg < 11).
Alu64AddImmChip_new(dst_reg, imm) ==
    IF dst_reg < NumRegs THEN Ok(ChipValue("Alu64AddImm", dst_reg, 0, imm, 0, 0))
    ELSE Err("Invalid register index")

\* A constructor that checks the destination index only.
Alu64AddRegChip_new_unchecked_src(dst_reg, src_reg) ==
    IF ~(dst_reg < NumRegs) THEN Err("Invalid destination register index")
    ELSE Ok(ChipValue("Alu64AddReg", dst_reg, src_reg, 0, 0, 0))

Alu64AddRegChip_new(dst_reg, src_reg) ==
    IF ~(dst_reg < NumRegs) THEN Err("Invalid destination register index")
    ELSE IF ~(src_reg < NumRegs) THEN Err("Invalid source register index")
    ELSE Ok(ChipValue("Alu64AddReg", dst_reg, src_reg, 0, 0, 0))

LdwChip_new(dst_reg, src_reg, offset, loaded_value) ==
    IF ~(dst_reg < NumRegs) THEN Err("Invalid destination register index")
    ELSE IF ~(src_reg < NumRegs) THEN Err("Invalid source register index")
    ELSE Ok(ChipValue("Ldw", dst_reg, src_reg, 0, offset, loaded_value))

StwChip_new(dst_reg, src_reg, offset) ==
    IF ~(dst_reg < NumRegs) THEN Err("Invalid destination register index")
    ELSE IF ~(src_reg < NumRegs) THEN Err("Invalid source register index")
    ELSE Ok(ChipValue("Stw", dst_reg, src_reg, 0, offset, 0))

ExitChip_new == Ok(ChipValue("Exit", 0, 0, 0, 0, 0))

\* The registers i in 0..n other than skip, in the loop's order; skip =
\* NumRegs skips nothing.
LoopRegisters(skip, n) ==
    IF skip < n THEN [j \in 1 .. n - 1 |-> IF j - 1 < skip THEN j - 1 ELSE j]
    ELSE [j \in 1 .. n |-> j - 1]

\* for i in 0..n { if i != skip { constrain_equal(before[i], after[i]) } }
ConstrainUnchanged(ctx, regs_before, regs_after, skip, n) ==
    [ctx EXCEPT
        !.equalities = @ \o [j \in 1 .. Len(LoopRegisters(skip, n)) |->
                               << regs_before[LoopRegisters(skip, n)[j]],
                                  regs_after[LoopRegisters(skip, n)[j]] >>]]

\* An ADD_IMM chip whose loop over the other registers stops at the
\* destination register.
Alu64AddImmChip_synthesize_upto_dst(ctx, chip, regs_before, regs_after) ==
    LET imm_f == F_from(AsU64(chip.imm))
        added == gate_add(ctx, Existing(regs_before[chip.dst_reg]), Constant(imm_f))
        bound == constrain_equal(added, LastCell(added), regs_after[chip.dst_reg])
    IN  [result |-> "Ok",
         ctx |-> ConstrainUnchanged(bound, regs_before, regs_after, chip.dst_reg,
                                    chip.dst_reg)]

\* An ADD_IMM chip that embeds the signed immediate as a field element
\* (imm < 0 becomes the field's -|imm|) instead of casting it to u64 first.
Alu64AddImmChip_synthesize_signed(ctx, chip, regs_before, regs_after) ==
    LET imm_f == F_from(chip.imm)
        added == gate_add(ctx, Existing(regs_before[chip.dst_reg]), Constant(imm_f))
        bound == constrain_equal(added, LastCell(added), regs_after[chip.dst_reg])
    IN  [result |-> "Ok",
         ctx |-> ConstrainUnchanged(bound, regs_before, regs_after, chip.dst_reg,
                                    NumRegs)]

\* Alu64AddImmChip::synthesize
Alu64AddImmChip_synthesize(ctx, chip, regs_before, regs_after) ==
    LET imm_u64 == AsU64(chip.imm)
        imm_f == F_from(imm_u64)
        dst_after_expected ==
            gate_add(ctx, Existing(regs_before[chip.dst_reg]), Constant(imm_f))
        bound == constrain_equal(dst_after_expected, LastCell(dst_after_expected),
                                 regs_after[chip.dst_reg])
    IN  [result |-> "Ok",
         ctx |-> ConstrainUnchanged(bound, regs_before, regs_after, chip.dst_reg,
                                    NumRegs)]

\* An ADD_REG chip that reads the source operand from the after-state.
Alu64AddRegChip_synthesize_src_after(ctx, chip, regs_before, regs_after) ==
    LET added == gate_add(ctx, Existing(regs_before[chip.dst_reg]),
                          Existing(regs_after[chip.src_reg]))
        bound == constrain_equal(added, LastCell(added), regs_after[chip.dst_reg])
    IN  [result |-> "Ok",
         ctx |-> ConstrainUnchanged(bound, regs_before, regs_after, chip.dst_reg,
                                    NumRegs)]

\* Alu64AddRegChip::synthesize
Alu64AddRegChip_synthesize(ctx, chip, regs_before, regs_after) ==
    LET dst_after_expected ==
            gate_add(ctx, Existing(regs_before[chip.dst_reg]),
                     Existing(regs_before[chip.src_reg]))
        bound == constrain_equal(dst_after_expected, LastCell(dst_after_expected),
                                 regs_after[chip.dst_reg])
    IN  [result |-> "Ok",
         ctx |-> ConstrainUnchanged(bound, regs_before, regs_after, chip.dst_reg,
                                    NumRegs)]

\* An LDW chip that loads the value as a witness but does not tie it to
\* the destination register.
LdwChip_synthesize_unbound(ctx, chip, regs_before, regs_after) ==
    LET address == gate_add(ctx, Existing(regs_before[chip.src_reg]),
                            Constant(F_from(AsU64(chip.offset))))
        loaded == load_witness(address, F_from(chip.loaded_value))
    IN  [result |-> "Ok",
         ctx |-> ConstrainUnchanged(loaded, regs_before, regs_after, chip.dst_reg,
                                    NumRegs)]

\* LdwChip::synthesize
LdwChip_synthesize(ctx, chip, regs_before, regs_after) ==
    LET offset_u64 == AsU64(chip.offset)
        address == gate_add(ctx, Existing(regs_before[chip.src_reg]),
                            Constant(F_from(offset_u64)))
        loaded == load_witness(address, F_from(chip.loaded_value))
        bound == constrain_equal(loaded, LastCell(loaded), regs_after[chip.dst_reg])
    IN  [result |-> "Ok",
         ctx |-> ConstrainUnchanged(bound, regs_before, regs_after, chip.dst_reg,
                                    NumRegs)]

\* An STW chip whose loop skips the base register, as the loops of the
\* other chips skip their destination.
StwChip_synthesize_skip_dst(ctx, chip, regs_before, regs_after) ==
    LET address == gate_add(ctx, Existing(regs_before[chip.dst_reg]),
                            Constant(F_from(AsU64(chip.offset))))
    IN  [result |-> "Ok",
         ctx |-> ConstrainUnchanged(address, regs_before, regs_after, chip.dst_reg,
                                    NumRegs)]

\* StwChip::synthesize
StwChip_synthesize(ctx, chip, regs_before, regs_after) ==
    LET offset_u64 == AsU64(chip.offset)
        address == gate_add(ctx, Existing(regs_before[chip.dst_reg]),
                            Constant(F_from(offset_u64)))
    IN  [result |-> "Ok",
         ctx |-> ConstrainUnchanged(address, regs_before, regs_after, NumRegs,
                                    NumRegs)]

\* An EXIT chip whose loop stops one register short.
ExitChip_synthesize_short(ctx, chip, regs_before, regs_after) ==
    [result |-> "Ok",
     ctx |-> ConstrainUnchanged(ctx, regs_before, regs_after, NumRegs, NumRegs - 1)]

\* ExitChip::synthesize
ExitChip_synthesize(ctx, chip, regs_before, regs_after) ==
    [result |-> "Ok",
     ctx |-> ConstrainUnchanged(ctx, regs_before, regs_after, NumRegs, NumRegs)]

\* BpfInstructionChip::synthesize, by the chip's type.
Chip_synthesize(ctx, chip, regs_before, regs_after) ==
    CASE chip.kind = "Alu64AddImm" ->
            Alu64AddImmChip_synthesize(ctx, chip, regs_before, regs_after)
      [] chip.kind = "Alu64AddReg" ->
            Alu64AddRegChip_synthesize(ctx, chip, regs_before, regs_after)
      [] chip.kind = "Ldw" -> LdwChip_synthesize(ctx, chip, regs_before, regs_after)
      [] chip.kind = "Stw" -> StwChip_synthesize(ctx, chip, regs_before, regs_after)
      [] OTHER -> ExitChip_synthesize(ctx, chip, regs_before, regs_after)

\* A chip run as the chips' tests run it: the before and after register
\* values are loaded as witnesses, then the chip is synthesized on them.
\* before and after are functions on r0..r10 giving field elements.
RunChip(chip, before, after) ==
    LET b == [cells |-> [j \in 1 .. NumRegs |-> before[j - 1]],
              equalities |-> << >>, gates |-> << >>]
        a == [b EXCEPT !.cells = @ \o [j \in 1 .. NumRegs |-> after[j - 1]]]
    IN  Chip_synthesize(a, chip, [i \in GprIdx |-> i + 1],
                        [i \in GprIdx |-> NumRegs + i + 1])

\* What the machine does to r0..r10 when it executes the chip's opcode
\* (u64 registers, sums modulo the word).
MachineExec(chip, before) ==
    CASE chip.kind = "Alu64AddImm" ->
            [before EXCEPT ![chip.dst_reg] = WrappingAdd(@, AsU64(chip.imm))]
      [] chip.kind = "Alu64AddReg" ->
            [before EXCEPT ![chip.dst_reg] = WrappingAdd(@, before[chip.src_reg])]
      [] chip.kind = "Ldw" -> [before EXCEPT ![chip.dst_reg] = chip.loaded_value]
      [] OTHER -> before

\* ------------------------------------------------ key generation (keygen.rs)

\* KeygenConfig::default: k and lookup_bits.
DefaultK == 17
DefaultLookupBits == 8

\* KeygenConfig::new
KeygenConfig_new(k, cache_dir, lookup_bits) ==
    [k |-> k, cache_dir |-> cache_dir, lookup_bits |-> lookup_bits]

\* KeygenConfig::default
KeygenConfig_default == KeygenConfig_new(DefaultK, ".cache/keys", DefaultLookupBits)

\* A path: the directory and the file name, the name with k in it.
params_path(config) == << config.cache_dir, "params_k", config.k, ".bin" >>
vk_path(config) == << config.cache_dir, "counter_vk_k", config.k, ".bin" >>
pk_path(config) == << config.cache_dir, "counter_pk_k", config.k, ".bin" >>

\* The configurations callers use: the default one, one that differs from
\* it in lookup_bits only (the same three paths), and the path test's
\* (k = 10 under /tmp/test_keys).
Configs ==
    {KeygenConfig_default,
     KeygenConfig_new(DefaultK, ".cache/keys", DefaultLookupBits + 1),
     KeygenConfig_new(10, "/tmp/test_keys", DefaultLookupBits)}

\* The cache files of the configurations.
Paths ==
    UNION {{params_path(config), vk_path(config), pk_path(config)} : config \in Configs}

\* A file: absent, corrupt (unreadable or partly written), or intact and
\* holding what a generation with the given lookup_bits saved.
Absent == [state |-> "absent", lookup_bits |-> 0]
Corrupt == [state |-> "corrupt", lookup_bits |-> 0]
Intact(lookup_bits) == [state |-> "intact", lookup_bits |-> lookup_bits]

\* struct KeyPair: the keys, by where they come from and what shaped them.
KeyPair(origin, k, lookup_bits) == [origin |-> origin, k |-> k, lookup_bits |-> lookup_bits]

\* An error message, word by word.
Contains(message, words) ==
    \E i \in 1 .. Len(message) - Len(words) + 1 :
        SubSeq(message, i, i + Len(words) - 1) = words

\* KeyPair::cache_exists
cache_exists(fs, config) ==
    /\ fs[params_path(config)].state # "absent"
    /\ fs[vk_path(config)].state # "absent"
    /\ fs[pk_path(config)].state # "absent"

\* KeyPair::load_from_cache.  readable: whether the library reads back the
\* files a save wrote in full.
load_from_cache(fs, config, readable) ==
    IF fs[params_path(config)].state # "intact" \/ ~readable
    THEN Err(<< "Failed", "to", "load", "KZG", "parameters" >>)
    ELSE IF fs[vk_path(config)].state # "intact"
    THEN Err(<< "Failed", "to", "load", "verifying", "key" >>)
    ELSE IF fs[pk_path(config)].state # "intact"
    THEN Err(<< "Failed", "to", "load", "proving", "key" >>)
    ELSE Ok(KeyPair("cache", config.k, fs[pk_path(config)].lookup_bits))

\* What the circuit synthesis and the two halo2 key generations of
\* KeyPair::generate can end in.
GenerateOutcomes(config) ==
    {Ok(KeyPair("generated", config.k, config.lookup_bits)),
     Err(<< "Failed", "to", "synthesize", "circuit" >>),
     Err(<< "Failed", "to", "generate", "verifying", "key" >>),
     Err(<< "Failed", "to", "generate", "proving", "key" >>)}

\* A save that returns as soon as the parameters file is written.
save_to_cache_params_only(fs, keypair, config, failure) ==
    [fs |-> [fs EXCEPT ![params_path(config)] = Intact(keypair.lookup_bits)],
     result |-> Ok(TRUE)]

\* keypair.save_to_cache(config): the file system afterwards and the
\* result.  failure is the step that fails: 1 create_dir_all, 2 save_params,
\* 3 save_vk, 4 save_pk, 0 none.  The step that fails leaves its file
\* partly written and the later files untouched.
save_to_cache(fs, keypair, config, failure) ==
    LET written(path, step) ==
            IF failure = 0 \/ step < failure THEN Intact(keypair.lookup_bits)
            ELSE IF step = failure THEN Corrupt
            ELSE fs[path]
    IN
    [fs |-> [path \in DOMAIN fs |->
                IF path = params_path(config) THEN written(path, 2)
                ELSE IF path = vk_path(config) THEN written(path, 3)
                ELSE IF path = pk_path(config) THEN written(path, 4)
                ELSE fs[path]],
     result |->
         CASE failure = 0 -> Ok(TRUE)
           [] failure = 1 -> Err(<< "Failed", "to", "create", "cache", "directory" >>)
           [] failure = 2 -> Err(<< "Failed", "to", "save", "KZG", "parameters" >>)
           [] failure = 3 -> Err(<< "Failed", "to", "save", "verifying", "key" >>)
           [] failure = 4 -> Err(<< "Failed", "to", "save", "proving", "key" >>)]

\* ------------------------------------------------------------------ state

VARIABLES
    bytecode,       \* the bytecode handed to trace_program
    writeBack,      \* the library's choice in execute_program
    entrySetup,     \* the library's choice of where r1 is loaded
    phase,          \* "start", "traced" (a trace is in hand) or "failed"
    traceResult,    \* what trace_program returned
    trace,          \* the ExecutionTrace the caller holds (its fields are pub)
    edits,          \* hand edits made to the trace
    synth,          \* outcome of CounterCircuit::synthesize_with_context
    proveResult,    \* what prove_execution returned
    claimed,        \* the public inputs handed to verify_execution
    verifyResult,   \* what verify_execution returned
    chipArgs,       \* arguments of a chip constructor
    chip,           \* what the constructor returned (Err: it panicked)
    chipBefore,     \* r0..r10 before the step, machine words
    chipAfter,      \* r0..r10 after the step as assigned, field elements
    chipPhase,      \* "args", "constructed", "panicked" or "synthesized"
    chipSynth,      \* outcome of chip.synthesize
    witness,        \* a Witness (its fields are pub)
    witnessBytes,   \* what witness.to_bytes() returned
    decoded,        \* what Witness::from_bytes(&bytes) returned
    snapshotText,   \* program_bytes of a snapshot conversion
    snapshotPc,     \* registers[11] of the snapshot
    overflowChecks, \* whether the build checks integer overflow
    snapshotBytes,  \* the instruction bytes the conversion gave
    context,        \* the TracerContext (the instruction meter)
    consumed,       \* the sum of the amounts consumed so far
    previous,       \* get_remaining() before the last consume
    files,          \* the key cache: the state of each file
    env,            \* the process environment's LOOKUP_BITS ({} when unset)
    callers,        \* the callers of KeyPair::load_or_generate
    returnedOk      \* the caches a load_or_generate has returned Ok for

pipelineVars ==
    << bytecode, writeBack, entrySetup, phase, traceResult, trace, edits, synth, proveResult,
       claimed, verifyResult >>

chipVars == << chipArgs, chip, chipBefore, chipAfter, chipPhase, chipSynth >>

serdeVars == << witness, witnessBytes, decoded >>

snapshotVars == << snapshotText, snapshotPc, overflowChecks, snapshotBytes >>

meterVars == << context, consumed, previous >>

keygenVars == << files, env, callers, returnedOk >>

\* The state of the runs of single functions.
unitVars == << serdeVars, snapshotVars, meterVars, keygenVars >>

vars == << pipelineVars, chipVars, unitVars >>

NotCalled == Err("not called")
NotSynthesized == [result |-> "none", ctx |-> EmptyContext]

\* Register slots a caller's edit touches: the return value, the last
\* general purpose register and the program counter.
EditSlots == {0, NumRegs - 1, PcSlot}

PipelineStart ==
    /\ phase = "start"
    /\ traceResult = NotCalled
    /\ trace = ExecutionTrace_new
    /\ edits = 0
    /\ synth = NotSynthesized
    /\ proveResult = NotCalled
    /\ claimed = PublicInputs_from_trace(ExecutionTrace_new).value
    /\ verifyResult = NotCalled

ChipStart(args) ==
    /\ chipArgs = args
    /\ chip = NotCalled
    /\ chipPhase = "args"
    /\ chipSynth = NotSynthesized

ExitArgs == ChipValue("Exit", 0, 0, 0, 0, 0)

\* TracerContext::new(100_000), nothing consumed yet
MeterStart ==
    /\ context = TracerContext_new(InstructionBudget)
    /\ consumed = 0
    /\ previous = InstructionBudget

\* A caller of load_or_generate that has not called yet.  load_path: the
\* call found the cache and tried to load it; loaded: the load succeeded;
\* generated, wrote: the call generated keys, wrote cache files; seen_bits:
\* LOOKUP_BITS in the environment when the call built its circuit;
\* after_success: an earlier call on the same cache had returned Ok.
IdleCaller(config) ==
    [config |-> config, at |-> "idle", calls |-> 0,
     result |-> Err(<< "not", "called" >>),
     load_path |-> FALSE, loaded |-> FALSE, generated |-> FALSE, wrote |-> FALSE,
     keys |-> KeyPair("none", 0, 0), seen_bits |-> {}, after_success |-> FALSE]

Procs == {1, 2}

\* Each part of the state when no run of it is under way.
PipelineIdle ==
    /\ bytecode = << >>
    /\ writeBack = FALSE
    /\ entrySetup = FALSE
    /\ PipelineStart

ChipIdle ==
    /\ ChipStart(ExitArgs)
    /\ chipBefore = [i \in GprIdx |-> 0]
    /\ chipAfter = [i \in GprIdx |-> 0]

SerdeIdle ==
    /\ witness = Witness_from_trace(ExecutionTrace_new).value
    /\ witnessBytes = NotCalled
    /\ decoded = NotCalled

SnapshotIdle ==
    /\ snapshotText = << >>
    /\ snapshotPc = 0
    /\ overflowChecks = TRUE
    /\ snapshotBytes = NotCalled

KeygenIdle ==
    /\ files = [path \in Paths |-> Absent]
    /\ callers = [p \in Procs |-> IdleCaller(KeygenConfig_default)]
    /\ env = {}
    /\ returnedOk = {}

Init ==
    /\ bytecode \in Programs
    /\ writeBack \in BOOLEAN
    /\ entrySetup \in BOOLEAN
    /\ PipelineStart
    /\ ChipStart(ExitArgs)
    /\ chipBefore = [i \in GprIdx |-> 0]
    /\ chipAfter = [i \in GprIdx |-> 0]
    /\ SerdeIdle
    /\ SnapshotIdle
    /\ MeterStart
    /\ KeygenIdle

\* ------------------------------------------------------- pipeline actions

\* let trace = trace_program(bytecode)?
TraceProgram ==
    /\ phase = "start"
    /\ LET r == trace_program(bytecode, writeBack, entrySetup) IN
       /\ traceResult' = r
       /\ trace' = IF r.ok THEN r.value ELSE trace
       /\ phase' = IF r.ok THEN "traced" ELSE "failed"
    /\ UNCHANGED << bytecode, writeBack, entrySetup, edits, synth, proveResult, claimed,
                    verifyResult, chipVars, unitVars >>

\* let trace = ExecutionTrace::new(): a trace built by hand
NewTrace ==
    /\ phase = "start"
    /\ trace' = ExecutionTrace_new
    /\ phase' = "traced"
    /\ UNCHANGED << bytecode, writeBack, entrySetup, traceResult, edits, synth, proveResult,
                    claimed, verifyResult, chipVars, unitVars >>

Editable ==
    /\ phase = "traced"
    /\ edits < MaxEdits
    /\ synth = NotSynthesized
    /\ proveResult = NotCalled

Bump(x) == (x + 1) % Word

\* The caller writes a register of a boundary state or of an entry (of an
\* entry, the return value or the program counter).
EditRegister ==
    /\ Editable
    /\ \E s \in EditSlots :
          \/ trace' = [trace EXCEPT !.initial_registers[s] = Bump(@)]
          \/ trace' = [trace EXCEPT !.final_registers[s] = Bump(@)]
          \/ \E k \in 1 .. Len(trace.instructions) :
                /\ s # NumRegs - 1
                /\ \/ trace' = [trace EXCEPT
                                    !.instructions[k].registers_before[s] = Bump(@)]
                   \/ trace' = [trace EXCEPT
                                    !.instructions[k].registers_after[s] = Bump(@)]
    /\ edits' = edits + 1
    /\ UNCHANGED << bytecode, writeBack, entrySetup, phase, traceResult, synth, proveResult,
                    claimed, verifyResult, chipVars, unitVars >>

\* The caller overwrites the opcode byte of an entry.
EditOpcode ==
    /\ Editable
    /\ \E k \in 1 .. Len(trace.instructions) :
          /\ trace.instructions[k].instruction_bytes[1] # 255
          /\ trace' = [trace EXCEPT !.instructions[k].instruction_bytes[1] = 255]
    /\ edits' = edits + 1
    /\ UNCHANGED << bytecode, writeBack, entrySetup, phase, traceResult, synth, proveResult,
                    claimed, verifyResult, chipVars, unitVars >>

\* CounterCircuit::from_trace(trace).synthesize_with_context(ctx, gate)
Synthesize ==
    /\ phase = "traced"
    /\ synth = NotSynthesized
    /\ synth' = synthesize_with_context(trace)
    /\ UNCHANGED << bytecode, writeBack, entrySetup, phase, traceResult, trace, edits,
                    proveResult, claimed, verifyResult, chipVars, unitVars >>

\* prove_execution(trace)
ProveExecution ==
    /\ phase = "traced"
    /\ proveResult = NotCalled
    /\ proveResult' = prove_execution(trace)
    /\ UNCHANGED << bytecode, writeBack, entrySetup, phase, traceResult, trace, edits, synth,
                    claimed, verifyResult, chipVars, unitVars >>

\* Public inputs a verifier may be handed with a proof: the prover's, or a
\* pair differing from them in r0 of the final or of the initial state.
ClaimedInputs(public_inputs) ==
    {public_inputs,
     [public_inputs EXCEPT !.final_registers[0] = Bump(@)],
     [public_inputs EXCEPT !.initial_registers[0] = Bump(@)]}

\* verify_execution(&proof, &public_inputs)
VerifyExecution ==
    /\ proveResult.ok
    /\ verifyResult = NotCalled
    /\ \E pi \in ClaimedInputs(proveResult.value.public_inputs) :
          /\ claimed' = pi
          /\ verifyResult' = verify_execution(proveResult.value.proof, pi)
    /\ UNCHANGED << bytecode, writeBack, entrySetup, phase, traceResult, trace, edits, synth,
                    proveResult, chipVars, unitVars >>

Next ==
    \/ TraceProgram
    \/ NewTrace
    \/ EditRegister
    \/ EditOpcode
    \/ Synthesize
    \/ ProveExecution
    \/ VerifyExecution

Spec == Init /\ [][Next]_vars

\* ------------------------------------------------------------ chip runs

\* Register values the destination and source registers start from.
ChipVals == {0, 10, Word - 1}

\* Register indices handed to a constructor: r0..r10 and the first invalid
\* index.
ChipDsts == 0 .. NumRegs

\* Source indices tried with a destination: the destination itself, its
\* neighbour, and the first invalid index.
ChipSrcs(dst) == {dst, (dst + 1) % NumRegs, IF dst = 0 THEN NumRegs ELSE dst}

ChipArgSets ==
    {ChipValue("Alu64AddImm", d, 0, imm, 0, 0) : d \in ChipDsts, imm \in {1, -5}}
    \cup UNION {{ChipValue("Alu64AddReg", d, s, 0, 0, 0) : s \in ChipSrcs(d)} :
                   d \in ChipDsts}
    \cup UNION {{ChipValue("Ldw", d, s, 0, off, 42) : s \in ChipSrcs(d), off \in {8, -8}} :
                   d \in ChipDsts}
    \cup UNION {{ChipValue("Stw", d, s, 0, off, 0) : s \in ChipSrcs(d), off \in {8, -8}} :
                   d \in ChipDsts}
    \cup {ExitArgs}

\* A register index of the arguments, or r0 when it is out of range.
InRange(r) == IF r < NumRegs THEN r ELSE 0

\* Register files before the step: distinct small values, the destination
\* and source registers drawn from ChipVals.
ChipBefores(args) ==
    {[i \in GprIdx |->
         IF i = InRange(args.dst_reg) THEN vd
         ELSE IF i = InRange(args.src_reg) THEN vs
         ELSE i + 1] : vd \in ChipVals, vs \in ChipVals}

\* Assignments of the after-state: what the machine computes, or that with
\* one register off by one or by a whole word (a field element no u64
\* embeds to).
ChipAfters(args, before) ==
    LET honest == [i \in GprIdx |-> F_from(MachineExec(args, before)[i])] IN
    {honest} \cup
    {[honest EXCEPT ![i] = F_add(@, delta)] : i \in GprIdx, delta \in {1, Word}}

ChipInit ==
    /\ bytecode = << >>
    /\ writeBack = FALSE
    /\ entrySetup = FALSE
    /\ PipelineStart
    /\ SerdeIdle
    /\ SnapshotIdle
    /\ MeterStart
    /\ KeygenIdle
    /\ \E args \in ChipArgSets :
          /\ ChipStart(args)
          /\ chipBefore \in ChipBefores(args)
          /\ chipAfter \in
                ChipAfters([args EXCEPT !.dst_reg = InRange(@), !.src_reg = InRange(@)],
                           chipBefore)

\* Chip::new(..): the constructor for the arguments' kind.
Chip_new(args) ==
    CASE args.kind = "Alu64AddImm" -> Alu64AddImmChip_new(args.dst_reg, args.imm)
      [] args.kind = "Alu64AddReg" -> Alu64AddRegChip_new(args.dst_reg, args.src_reg)
      [] args.kind = "Ldw" ->
            LdwChip_new(args.dst_reg, args.src_reg, args.offset, args.loaded_value)
      [] args.kind = "Stw" -> StwChip_new(args.dst_reg, args.src_reg, args.offset)
      [] OTHER -> ExitChip_new

ChipNew ==
    /\ chipPhase = "args"
    /\ chip' = Chip_new(chipArgs)
    /\ chipPhase' = IF Chip_new(chipArgs).ok THEN "constructed" ELSE "panicked"
    /\ UNCHANGED << pipelineVars, unitVars, chipArgs, chipBefore, chipAfter, chipSynth >>

\* chip.synthesize(ctx, gate, &regs_before, &regs_after)
ChipSynthesize ==
    /\ chipPhase = "constructed"
    /\ chipSynth' = RunChip(chip.value, [i \in GprIdx |-> F_from(chipBefore[i])], chipAfter)
    /\ chipPhase' = "synthesized"
    /\ UNCHANGED << pipelineVars, unitVars, chipArgs, chip, chipBefore, chipAfter >>

ChipNext == ChipNew \/ ChipSynthesize

ChipSpec == ChipInit /\ [][ChipNext]_vars


\* ------------------------------------------------------- snapshot conversions

\* The text is one an executable holds, a program that loads and verifies;
\* a snapshot of the register trace carries any u64 in its PC slot.
SnapshotInit ==
    /\ PipelineIdle
    /\ ChipIdle
    /\ SerdeIdle
    /\ snapshotText \in {program \in Programs : LoadOk(program) /\ VerifyOk(program)}
    /\ snapshotPc \in 0 .. Word - 1
    /\ overflowChecks \in BOOLEAN
    /\ snapshotBytes = NotCalled
    /\ MeterStart
    /\ KeygenIdle

\* One pass of the loop over vm.register_trace, up to instruction_bytes.
ConvertSnapshot ==
    /\ snapshotBytes = NotCalled
    /\ snapshotBytes' = InstructionBytes(snapshotText, snapshotPc, overflowChecks)
    /\ UNCHANGED << pipelineVars, chipVars, serdeVars, snapshotText, snapshotPc,
                    overflowChecks, meterVars, keygenVars >>

SnapshotNext == ConvertSnapshot

SnapshotSpec == SnapshotInit /\ [][SnapshotNext]_vars



\* --------------------------------------------------------------- meter runs

MeterInit ==
    /\ PipelineIdle
    /\ ChipIdle
    /\ SerdeIdle
    /\ SnapshotIdle
    /\ MeterStart
    /\ KeygenIdle

\* context.consume(amount), the amount being nothing, one or two
\* instructions, the whole budget or the largest word; runs are followed
\* up to a sum of two words.
Consume ==
    /\ \E amount \in {0, 1, 2, InstructionBudget, Word - 1} :
          /\ consumed + amount <= 2 * Word
          /\ context' = [context EXCEPT !.remaining = consume(@, amount)]
          /\ consumed' = consumed + amount
    /\ previous' = get_remaining(context)
    /\ UNCHANGED << pipelineVars, chipVars, serdeVars, snapshotVars, keygenVars >>

MeterNext == Consume

MeterSpec == MeterInit /\ [][MeterNext]_vars


\* ------------------------------------------------------ key generation runs

\* The cache a configuration's paths name.
CacheOf(config) == << config.cache_dir, config.k >>

\* What the caches hold before the first call: nothing, a full set of
\* keys, a set with an unreadable verifying key, a set without the proving
\* key.
InitialFiles(kind) ==
    [path \in Paths |->
        CASE kind = "empty" -> Absent
          [] kind = "cached" -> Intact(DefaultLookupBits)
          [] kind = "corrupt" ->
                IF path[2] = "counter_vk_k" THEN Corrupt ELSE Intact(DefaultLookupBits)
          [] kind = "partial" ->
                IF path[2] = "counter_pk_k" THEN Absent ELSE Intact(DefaultLookupBits)]

KeygenInit ==
    /\ PipelineIdle
    /\ ChipIdle
    /\ SerdeIdle
    /\ SnapshotIdle
    /\ MeterStart
    /\ files \in {InitialFiles(kind) : kind \in {"empty", "cached", "corrupt", "partial"}}
    /\ callers \in [Procs -> {IdleCaller(config) : config \in Configs}]
    /\ env = {}
    /\ returnedOk = {}

\* KeyPair::load_or_generate(config), up to the decision to generate: the
\* cache check and, when the files exist, the attempt to load them.
LoadOrGenerate(p) ==
    /\ callers[p].at \in {"idle", "done"}
    /\ callers[p].calls < MaxCalls
    /\ \E readable \in BOOLEAN :
          LET config == callers[p].config
              found == cache_exists(files, config)
              cached == load_from_cache(files, config, readable)
              call == [IdleCaller(config) EXCEPT
                          !.calls = callers[p].calls + 1,
                          !.load_path = found,
                          !.after_success = CacheOf(config) \in returnedOk]
          IN  IF found /\ cached.ok
              THEN /\ callers' = [callers EXCEPT ![p] =
                                     [call EXCEPT !.at = "done", !.loaded = TRUE,
                                                  !.result = cached,
                                                  !.keys = cached.value]]
                   /\ returnedOk' = returnedOk \cup {CacheOf(config)}
              ELSE /\ callers' = [callers EXCEPT ![p] = [call EXCEPT !.at = "generate"]]
                   /\ UNCHANGED returnedOk
    /\ UNCHANGED << pipelineVars, chipVars, serdeVars, snapshotVars, meterVars, files, env >>

\* KeyPair::generate: ParamsKZG::setup, then std::env::set_var.
SetLookupBits(p) ==
    /\ callers[p].at = "generate"
    /\ env' = {callers[p].config.lookup_bits}
    /\ callers' = [callers EXCEPT ![p].at = "build"]
    /\ UNCHANGED << pipelineVars, chipVars, serdeVars, snapshotVars, meterVars, files,
                    returnedOk >>

\* KeyPair::generate: the circuit is built and synthesized and the two keys
\* are generated, in the environment as it is by then.
BuildKeys(p) ==
    /\ callers[p].at = "build"
    /\ \E outcome \in GenerateOutcomes(callers[p].config) :
          callers' = [callers EXCEPT ![p] =
              IF outcome.ok
              THEN [@ EXCEPT !.at = "save", !.generated = TRUE, !.keys = outcome.value,
                             !.seen_bits = env]
              ELSE [@ EXCEPT !.at = "done", !.result = outcome, !.seen_bits = env]]
    /\ UNCHANGED << pipelineVars, chipVars, serdeVars, snapshotVars, meterVars, files, env,
                    returnedOk >>

\* keypair.save_to_cache(config).context("Failed to cache generated keys")?
\* and the return of load_or_generate.
SaveToCache(p) ==
    /\ callers[p].at = "save"
    /\ \E failure \in 0 .. 4 :
          LET config == callers[p].config
              saved == save_to_cache(files, callers[p].keys, config, failure)
          IN  /\ files' = saved.fs
              /\ callers' = [callers EXCEPT ![p] =
                    [@ EXCEPT !.at = "done", !.wrote = TRUE,
                              !.result =
                                  IF saved.result.ok THEN Ok(callers[p].keys)
                                  ELSE Err(<< "Failed", "to", "cache", "generated",
                                              "keys" >>)]]
              /\ returnedOk' =
                    IF saved.result.ok THEN returnedOk \cup {CacheOf(config)}
                    ELSE returnedOk
    /\ UNCHANGED << pipelineVars, chipVars, serdeVars, snapshotVars, meterVars, env >>

KeygenNext ==
    \E p \in Procs :
        \/ LoadOrGenerate(p)
        \/ SetLookupBits(p)
        \/ BuildKeys(p)
        \/ SaveToCache(p)

KeygenSpec == KeygenInit /\ [][KeygenNext]_vars

\* ------------------------------------------------- witness serialization runs

\* Register vectors a Witness may hold.  The fields are pub, so their
\* lengths are the caller's choice.
WitnessWords == {<< >>, << Word - 1 >>, << 10, 0, 9 >>}
\* The witnesses serialized: those of the traced programs S1 and S2, and
\* hand-built ones.
Witnesses ==
    {Witness_from_trace(trace_program(program, TRUE, FALSE).value).value :
        program \in {ProgS1, ProgS2}}
    \cup
    {[initial_registers |-> ir,
      instruction_register_states |-> irs,
      final_registers |-> << 42 >>,
      program_counters |-> pcs,
      instruction_bytes |-> ib,
      account_changes |-> ac] :
        ir \in WitnessWords,
        irs \in {<< >>, << << 10, 0, 9 >> >>, << << >>, << Word - 1 >> >>},
        pcs \in WitnessWords,
        ib \in {<< >>, << Insn(EXIT, 0, 0, 0, 0) >>, << << >>, << 255, 7 >> >>},
        ac \in {<< >>,
                << [pubkey |-> << 1, 2 >>, data_before |-> << >>,
                    data_after |-> << 200 >>, lamports_before |-> Word - 1,
                    lamports_after |-> 0] >>}}

SerdeInit ==
    /\ PipelineIdle
    /\ ChipIdle
    /\ witness \in Witnesses
    /\ witnessBytes = NotCalled
    /\ decoded = NotCalled
    /\ SnapshotIdle
    /\ MeterStart
    /\ KeygenIdle

\* let bytes = witness.to_bytes()
ToBytes ==
    /\ witnessBytes = NotCalled
    /\ witnessBytes' = Witness_to_bytes(witness)
    /\ UNCHANGED << pipelineVars, chipVars, witness, decoded, snapshotVars, meterVars,
                    keygenVars >>

\* let deserialized = Witness::from_bytes(&bytes)
FromBytes ==
    /\ witnessBytes.ok
    /\ decoded = NotCalled
    /\ decoded' = Witness_from_bytes(witnessBytes.value)
    /\ UNCHANGED << pipelineVars, chipVars, witness, witnessBytes, snapshotVars, meterVars,
                    keygenVars >>

SerdeNext == ToBytes \/ FromBytes

SerdeSpec == SerdeInit /\ [][SerdeNext]_vars


\* ================================================================ claims

Synthesized == synth # NotSynthesized
Proved == proveResult # NotCalled
Verified == verifyResult # NotCalled
NumEntries == Len(trace.instructions)

\* The register file the circuit holds as current before entry k: the
\* initial registers, or the after-state of entry k - 1.
CurrentBefore(t, k) ==
    IF k = 1 THEN t.initial_registers ELSE t.instructions[k - 1].registers_after

\* The register file the circuit holds as current after the step loop.
CurrentAtEnd(t) == CurrentBefore(t, Len(t.instructions) + 1)

\* r0..r10 after the instruction encoded in bytes executes on regs.
ApplyOpcode(bytes, regs) ==
    IF Decode(bytes).opc \in {EXIT, JA} THEN regs ELSE ExecAlu(Decode(bytes), regs)

\* A trace is a valid execution from its initial to its final registers:
\* every entry's after-state is what its opcode makes of the state before
\* it, and the last state is the final one (r0..r10).
ValidExecution(t) ==
    /\ \A k \in 1 .. Len(t.instructions) :
          /\ Decode(t.instructions[k].instruction_bytes).opc \in VmOpcodes
          /\ \A i \in GprIdx :
                t.instructions[k].registers_after[i] =
                    ApplyOpcode(t.instructions[k].instruction_bytes, CurrentBefore(t, k))[i]
    /\ \A i \in GprIdx : t.final_registers[i] = CurrentAtEnd(t)[i]

\* Opcode bytes with a chip: ADD_IMM, ADD_REG, MOV64_IMM, EXIT and the word
\* and double-word loads and stores.
ChipOpcodes == {ADD64_IMM, ADD64_REG, MOV64_IMM, EXIT, 97, 99, 121, 123}

\* C1: in every trace trace_program returns, the after-state of entry k is
\* the before-state of entry k + 1 in all twelve slots.
C1_TraceChain ==
    traceResult.ok =>
        \A k \in 1 .. Len(traceResult.value.instructions) - 1 :
            \A i \in SlotIdx :
                traceResult.value.instructions[k].registers_after[i] =
                    traceResult.value.instructions[k + 1].registers_before[i]

C1_Witness == traceResult.ok /\ Len(traceResult.value.instructions) >= 4

\* C2: the aggregate circuit is satisfied exactly when the trace is a valid
\* execution from its initial to its final registers.  Stated for runs in
\* which the VM holds the entry registers from construction on and reports
\* its registers after the run, where every trace the tracer returns is a
\* valid execution.
C2_SatisfiedIffValid ==
    (Synthesized /\ writeBack /\ ~entrySetup) =>
        ((synth.result = "Ok" /\ Satisfied(synth.ctx)) <=> ValidExecution(trace))

\* C3: a trace with an opcode byte that has no chip makes synthesis fail
\* with UnsupportedOpcode and prove_execution return no proof.
C3_UnsupportedOpcodeFails ==
    (\E k \in 1 .. NumEntries : trace.instructions[k].instruction_bytes[1] \notin ChipOpcodes)
        => /\ Synthesized => synth.result = "UnsupportedOpcode"
           /\ Proved => ~proveResult.ok

\* The (initial, final) boundary of a trace, r0..r10.
Boundary(t) ==
    [initial_registers |-> [i \in GprIdx |-> t.initial_registers[i]],
     final_registers |-> [i \in GprIdx |-> t.final_registers[i]]]

\* C4: verify_execution returns true exactly when the claimed public inputs
\* are the boundary of the trace the proof was produced from.
C4_VerifyIffBoundary ==
    Verified =>
        /\ verifyResult.ok
        /\ verifyResult.value <=> (claimed = Boundary(trace))

\* C5: for the trace of S1 with r0 of the final registers changed from 42 to
\* 43, prove_execution returns an error.
C5_AlteredFinalFailsProving ==
    (/\ Proved
     /\ bytecode = ProgS1
     /\ traceResult.ok
     /\ traceResult.value.final_registers[0] = 42
     /\ trace = [traceResult.value EXCEPT !.final_registers[0] = 43])
        => ~proveResult.ok

\* C6: the circuit constrains the current registers after the step loop to
\* equal the final registers on r0..r10; with at least one entry, a final
\* register differing from the last after-state leaves it unsatisfied.
C6_FinalBoundary ==
    Synthesized =>
        /\ \A i \in GprIdx :
              << F_from(CurrentAtEnd(trace)[i]), F_from(trace.final_registers[i]) >>
                  \in ConstrainedPairs(synth.ctx)
        /\ (NumEntries >= 1
            /\ \E i \in GprIdx :
                  trace.final_registers[i] # trace.instructions[NumEntries].registers_after[i])
              => ~Satisfied(synth.ctx)

C6_Witness ==
    /\ Synthesized
    /\ NumEntries >= 1
    /\ trace.final_registers[NumRegs - 1]
          # trace.instructions[NumEntries].registers_after[NumRegs - 1]
    /\ \A i \in 0 .. NumRegs - 2 :
          trace.final_registers[i] = trace.instructions[NumEntries].registers_after[i]

\* An entry whose before-state differs on r0..r10 from the state the
\* circuit holds as current.
BrokenChain(t) ==
    \E k \in 1 .. Len(t.instructions) : \E i \in GprIdx :
        t.instructions[k].registers_before[i] # CurrentBefore(t, k)[i]

\* C7: synthesis of a trace with a broken chain does not succeed with a
\* satisfied system.  Stated for runs in which the VM holds the entry
\* registers from construction on, where no trace the tracer returns has a
\* broken chain.
C7_BrokenChainDetected ==
    (Synthesized /\ BrokenChain(trace) /\ ~entrySetup) =>
        ~(synth.result = "Ok" /\ Satisfied(synth.ctx))

\* C8: for a trace without entries the circuit holds exactly the boundary
\* constraints initial[i] = final[i], i in 0..10, and is satisfied exactly
\* when the two register files agree on r0..r10.
C8_EmptyTrace ==
    (Synthesized /\ NumEntries = 0) =>
        /\ synth.result = "Ok"
        /\ synth.ctx.cells =
              [j \in 1 .. 2 * NumRegs |->
                  IF j <= NumRegs THEN F_from(trace.initial_registers[j - 1])
                  ELSE F_from(trace.final_registers[j - NumRegs - 1])]
        /\ synth.ctx.equalities = [j \in 1 .. NumRegs |-> << j, NumRegs + j >>]
        /\ synth.ctx.gates = << >>
        /\ Satisfied(synth.ctx) <=>
              \A i \in GprIdx : trace.initial_registers[i] = trace.final_registers[i]

C8_Witness ==
    /\ Synthesized
    /\ NumEntries = 0
    /\ trace.initial_registers[NumRegs - 1] # trace.final_registers[NumRegs - 1]
    /\ ~Satisfied(synth.ctx)

\* The register a chip writes; the exit chip writes none.
TargetRegister(c) == IF c.kind = "Exit" THEN NumRegs ELSE c.dst_reg

\* C9: a chip's constraints are unsatisfied by every assignment in which a
\* register other than its target differs between before and after.
C9_NonInterference ==
    chipPhase = "synthesized" =>
        ((\E i \in GprIdx :
              /\ i # TargetRegister(chip.value)
              /\ chipAfter[i] # F_from(chipBefore[i]))
            => ~Satisfied(chipSynth.ctx))

C9_Witness ==
    /\ chipPhase = "synthesized"
    /\ chip.value.kind = "Alu64AddImm"
    /\ chip.value.dst_reg = 3
    /\ chipAfter[NumRegs - 1] # F_from(chipBefore[NumRegs - 1])
    /\ ~Satisfied(chipSynth.ctx)

\* C10: a chip's constraints are satisfied by every honest execution of its
\* opcode, the after-state being the machine's registers.
C10_ChipCorrectness ==
    (/\ chipPhase = "synthesized"
     /\ chipAfter = [i \in GprIdx |-> F_from(MachineExec(chip.value, chipBefore)[i])])
        => (chipSynth.result = "Ok" /\ Satisfied(chipSynth.ctx))

\* ------------------------------------------------------ claims on the chips

ChipSynthesized(kind) == chipPhase = "synthesized" /\ chip.value.kind = kind

\* The after-state assigns register i the value the before-state holds.
Unchanged(i) == chipAfter[i] = F_from(chipBefore[i])

\* The equalities before[i] = after[i] for i in 0..10, in the loop's order,
\* on the cells RunChip loads.
AllRegistersEqual == [j \in 1 .. NumRegs |-> << j, NumRegs + j >>]

\* C11: the exit chip imposes after[i] = before[i] for i in 0..10 and
\* nothing else; it is satisfied exactly when the two register files are
\* equal, so one changed register of the after-state leaves it unsatisfied.
C11_ExitImposesEquality ==
    ChipSynthesized("Exit") =>
        /\ chipSynth.result = "Ok"
        /\ chipSynth.ctx.equalities = AllRegistersEqual
        /\ chipSynth.ctx.gates = << >>
        /\ Len(chipSynth.ctx.cells) = 2 * NumRegs
        /\ Satisfied(chipSynth.ctx) <=> \A i \in GprIdx : Unchanged(i)

C11_Witness ==
    /\ ChipSynthesized("Exit")
    /\ ~Unchanged(NumRegs - 1)
    /\ \A i \in 0 .. NumRegs - 2 : Unchanged(i)
    /\ ~Satisfied(chipSynth.ctx)

\* The constant an immediate adds: itself, or the word size minus its
\* magnitude when it is negative.
AddedConstant(imm) == IF imm < 0 THEN Word + imm ELSE imm

\* C12: the ADD_IMM chip is satisfied exactly when after[dst] is
\* before[dst] plus the immediate's bit-identical unsigned value, added in
\* the field without reduction modulo the word, and every other register
\* is unchanged; a negative immediate adds the word size minus its
\* magnitude.
C12_AddImmExact ==
    ChipSynthesized("Alu64AddImm") =>
        LET d == chip.value.dst_reg
            k == AddedConstant(chip.value.imm)
        IN  /\ chipSynth.ctx.gates = << [a |-> Existing(d + 1), b |-> Constant(k),
                                          out |-> 2 * NumRegs + 1] >>
            /\ Satisfied(chipSynth.ctx) <=>
                  /\ chipAfter[d] = (chipBefore[d] + k) % FieldModulus
                  /\ \A i \in GprIdx \ {d} : Unchanged(i)

C12_Witness ==
    /\ ChipSynthesized("Alu64AddImm")
    /\ chip.value.imm < 0
    /\ chipBefore[chip.value.dst_reg] = Word - 1
    /\ chipAfter[chip.value.dst_reg] >= Word
    /\ Satisfied(chipSynth.ctx)

\* C13: the ADD_REG chip is satisfied exactly when after[dst] is
\* before[dst] + before[src] and every other register is unchanged; with
\* dst = src this is twice before[dst].
C13_AddRegExact ==
    ChipSynthesized("Alu64AddReg") =>
        LET d == chip.value.dst_reg
            s == chip.value.src_reg
        IN  /\ Satisfied(chipSynth.ctx) <=>
                  /\ chipAfter[d] = (chipBefore[d] + chipBefore[s]) % FieldModulus
                  /\ \A i \in GprIdx \ {d} : Unchanged(i)
            /\ (d = s /\ Satisfied(chipSynth.ctx)) =>
                  chipAfter[d] = (2 * chipBefore[d]) % FieldModulus

C13_Witness ==
    /\ ChipSynthesized("Alu64AddReg")
    /\ chip.value.dst_reg = chip.value.src_reg
    /\ chipBefore[chip.value.dst_reg] = 10
    /\ chipAfter[chip.value.dst_reg] = 20
    /\ Satisfied(chipSynth.ctx)

\* C14: the LDW chip is satisfied exactly when after[dst] is the loaded
\* value and every other register is unchanged, whatever the source
\* register, the offset and the base value the address is computed from.
C14_LdwExact ==
    ChipSynthesized("Ldw") =>
        (Satisfied(chipSynth.ctx) <=>
            /\ chipAfter[chip.value.dst_reg] = F_from(chip.value.loaded_value)
            /\ \A i \in GprIdx \ {chip.value.dst_reg} : Unchanged(i))

C14_Witness ==
    /\ ChipSynthesized("Ldw")
    /\ chip.value.dst_reg # chip.value.src_reg
    /\ chip.value.offset < 0
    /\ chipBefore[chip.value.src_reg] = 0
    /\ Satisfied(chipSynth.ctx)

\* C15: the STW chip constrains after[i] = before[i] on all eleven
\* registers, the base register dst and the value register src included,
\* for every dst, src and offset.
C15_StwFrame ==
    ChipSynthesized("Stw") =>
        /\ chipSynth.ctx.equalities = AllRegistersEqual
        /\ Satisfied(chipSynth.ctx) <=> \A i \in GprIdx : Unchanged(i)

C15_Witness ==
    /\ ChipSynthesized("Stw")
    /\ chip.value.dst_reg # chip.value.src_reg
    /\ ~Unchanged(chip.value.dst_reg)
    /\ \A i \in GprIdx \ {chip.value.dst_reg} : Unchanged(i)
    /\ ~Satisfied(chipSynth.ctx)

\* C16: a constructor handed a destination or source index of 11 or more
\* panics, so every chip a constructor returned has its indices in 0..10.
C16_ConstructorsReject ==
    /\ (/\ chipPhase # "args"
        /\ chipArgs.kind # "Exit"
        /\ (chipArgs.dst_reg >= NumRegs \/ chipArgs.src_reg >= NumRegs))
          => (chipPhase = "panicked" /\ ~chip.ok)
    /\ chipPhase \in {"constructed", "synthesized"} =>
          (chip.value.dst_reg < NumRegs /\ chip.value.src_reg < NumRegs)

C16_Witness ==
    /\ chipPhase = "panicked"
    /\ chipArgs.kind = "Alu64AddReg"
    /\ chipArgs.dst_reg < NumRegs
    /\ chipArgs.src_reg = NumRegs

\* ------------------------------------------------------ claims on the tracer

Traced == traceResult.ok

\* C17: in every trace trace_program returns with at least one entry, the
\* last entry's after-state is the trace's final registers, and so the last
\* per-step register vector of the witness is its final register vector.
C17_LastAfterIsFinal ==
    (Traced /\ Len(traceResult.value.instructions) >= 1) =>
        LET T == traceResult.value
            n == Len(T.instructions)
            w == Witness_from_trace(T).value
        IN  /\ \A i \in SlotIdx : T.instructions[n].registers_after[i] = T.final_registers[i]
            /\ w.instruction_register_states[n] = w.final_registers

C17_Witness ==
    /\ Traced
    /\ bytecode = ProgDouble
    /\ Len(traceResult.value.instructions) = 3
    /\ traceResult.value.final_registers[0] = Word - 2

\* A program the loader and the verifier accept and that, given one unit
\* of budget more, executes more instructions than the budget.
RunsOver(program) ==
    /\ LoadOk(program)
    /\ VerifyOk(program)
    /\ Interpret(program, VmEntryRegisters, << >>, 0, InstructionBudget + 1).due
          > InstructionBudget

\* C20: trace_program returns after at most the budget's number of
\* interpreted instructions, and for a program that would execute more than
\* the budget it returns the budget error, not a trace.
C20_BudgetEndsTracing ==
    (traceResult # NotCalled) =>
        /\ Traced => Len(traceResult.value.instructions) <= InstructionBudget
        /\ (LoadOk(bytecode) /\ VerifyOk(bytecode)) =>
              execute_program(bytecode, VmInitialRegisters(entrySetup), InstructionBudget,
                              writeBack).instruction_count <= InstructionBudget
        /\ RunsOver(bytecode) =>
              traceResult = Err("Program execution failed: ExceededMaxInstructions")

C20_Witness ==
    /\ bytecode = ProgLoop
    /\ phase = "failed"
    /\ traceResult = Err("Program execution failed: ExceededMaxInstructions")

\* C21: a run that fails to load, to verify or to execute makes
\* trace_program return an error that carries no trace, not even the
\* entries recorded before the failure, and the caller is left without one;
\* the empty bytecode fails to load.
C21_FailureExposesNoTrace ==
    (traceResult # NotCalled) =>
        /\ (bytecode = << >>) => traceResult = Err("Failed to load BPF program")
        /\ (Len(bytecode) > 0 /\ ~VerifyOk(bytecode)) =>
              traceResult = Err("Failed to verify executable")
        /\ (Len(bytecode) > 0 /\ VerifyOk(bytecode)
            /\ ~execute_program(bytecode, VmInitialRegisters(entrySetup),
                                InstructionBudget, writeBack).result.ok) =>
              ~traceResult.ok
        /\ ~traceResult.ok =>
              /\ traceResult.value = 0
              /\ phase = "failed"
              /\ trace = ExecutionTrace_new

C21_Witness ==
    /\ bytecode = << >>
    /\ phase = "failed"
    /\ traceResult = Err("Failed to load BPF program")

\* An entry whose opcode is neither a branch nor EXIT.
AtRest(entry) == entry.instruction_bytes[1] \notin {JA, EXIT}

C30_MeterSaturates ==
    /\ get_remaining(context) =
          IF consumed >= InstructionBudget THEN 0 ELSE InstructionBudget - consumed
    /\ get_remaining(context) <= previous
    /\ previous = 0 => get_remaining(context) = 0

C30_Witness ==
    /\ consumed > Word
    /\ previous = 0
    /\ get_remaining(context) = 0

\* --------------------------------------------------- claims on the witness

\* C22: serializing a witness and deserializing the bytes succeeds and
\* gives back a witness equal to the original in every field.
C22_RoundTrip ==
    /\ witnessBytes # NotCalled => witnessBytes.ok
    /\ decoded # NotCalled =>
          /\ decoded.ok
          /\ decoded.value.initial_registers = witness.initial_registers
          /\ decoded.value.instruction_register_states
                = witness.instruction_register_states
          /\ decoded.value.final_registers = witness.final_registers
          /\ decoded.value.program_counters = witness.program_counters
          /\ decoded.value.instruction_bytes = witness.instruction_bytes
          /\ decoded.value.account_changes = witness.account_changes
          /\ decoded.value = witness

C22_Witness ==
    /\ decoded.ok
    /\ Len(witness.instruction_register_states) = 4
    /\ witness.final_registers[1] = 30
    /\ decoded.value.instruction_bytes[3][1] = ADD64_REG

\* C23: for every trace, hand-built ones included, Witness::from_trace
\* succeeds and its initial and final register vectors have eleven elements,
\* r0..r10 of the trace's initial and final states; the PC slot is left out.
C23_BoundaryProjection ==
    (phase = "traced") =>
        LET w == Witness_from_trace(trace) IN
        /\ w.ok
        /\ Len(w.value.initial_registers) = NumRegs
        /\ Len(w.value.final_registers) = NumRegs
        /\ \A i \in GprIdx :
              /\ w.value.initial_registers[i + 1] = trace.initial_registers[i]
              /\ w.value.final_registers[i + 1] = trace.final_registers[i]

C23_Witness ==
    /\ phase = "traced"
    /\ traceResult = NotCalled
    /\ proveResult.ok
    /\ trace.final_registers[PcSlot] = 1
    /\ trace.initial_registers[NumRegs - 1] = 1
    /\ Witness_from_trace(trace).value.initial_registers[NumRegs] = 1

\* C24: the witness has one per-step register vector, one program counter
\* and one instruction byte string per trace entry, and the k-th of each is
\* r0..r10 of the k-th entry's after-state, its pc and its instruction
\* bytes, in the trace's order.
C24_EntriesMirrored ==
    (phase = "traced") =>
        LET w == Witness_from_trace(trace).value
            n == Len(trace.instructions)
        IN  /\ Len(w.instruction_register_states) = n
            /\ Len(w.program_counters) = n
            /\ Len(w.instruction_bytes) = n
            /\ \A k \in 1 .. n :
                  /\ Len(w.instruction_register_states[k]) = NumRegs
                  /\ \A i \in GprIdx :
                        w.instruction_register_states[k][i + 1]
                            = trace.instructions[k].registers_after[i]
                  /\ w.program_counters[k] = trace.instructions[k].pc
                  /\ w.instruction_bytes[k] = trace.instructions[k].instruction_bytes

C24_Witness ==
    /\ bytecode = ProgS2
    /\ proveResult.ok
    /\ edits = MaxEdits
    /\ Len(Witness_from_trace(trace).value.program_counters) = 4
    /\ trace.instructions[2].registers_before[PcSlot] # trace.instructions[2].pc
    /\ Witness_from_trace(trace).value.instruction_bytes[3][1] = 255

\* ---------------------------------------------- claims on the key generation

C28_NoProcessWideState ==
    /\ env = {}
    /\ \A p \in Procs : callers[p].seen_bits \subseteq {callers[p].config.lookup_bits}

\* C29: load_or_generate with the default configuration returns an error
\* whose message contains "not yet implemented".
C29_NotYetImplemented ==
    \A p \in Procs :
        (callers[p].at = "done" /\ callers[p].config = KeygenConfig_default) =>
            /\ ~callers[p].result.ok
            /\ Contains(callers[p].result.err, << "not", "yet", "implemented" >>)

====
